---- MODULE Spec2Model ----
(***************************************************************************)
(* Model of shrek-deck: the line parser and the file parser of             *)
(* src/parser.rs, and the deck transformer of src/tts.rs with              *)
(* CardEntry::get_custom_deck_state of src/lib.rs.                         *)
(*                                                                         *)
(* Text is a sequence of characters; a character is a one-element token    *)
(* ("3", "x", " ", ...).  Option values are sequences: None is <<>> and    *)
(* Some(v) is <<v>>.                                                       *)
(***************************************************************************)
EXTENDS Integers, Sequences, FiniteSets, TLC

\* ------------------------------------------------------------------------
\* Bounds of the model
\* ------------------------------------------------------------------------
MaxLen == 4
MaxLines == 3
MaxEntries == 2
MaxAmount == 2
MaxFailedReads == 2

\* ------------------------------------------------------------------------
\* Characters
\* ------------------------------------------------------------------------
None == <<>>
Some(v) == <<v>>

\* a two-byte, non-whitespace character (U+00E9)
WideChar == "U+00E9"

Digits == <<"0", "1", "2", "3", "4", "5", "6", "7", "8", "9">>

IsDigit(chr) == \E i \in 1..Len(Digits) : Digits[i] = chr

DigitVal(chr) == (CHOOSE i \in 1..Len(Digits) : Digits[i] = chr) - 1

\* char::is_whitespace, as used by str::trim
IsWhitespace(chr) == chr \in {" ", "\t", "\n", "\r"}

\* char::len_utf8: the step of the byte offsets char_indices yields
LenUtf8(chr) == IF chr = WideChar THEN 2 ELSE 1

\* the characters lines are enumerated over
Chars == {"0", "3", "x", "X", " ", "\t", "\n", "a", WideChar}

RECURSIVE StringsUpTo(_)
StringsUpTo(n) ==
    IF n = 0 THEN {<<>>}
    ELSE LET shorter == StringsUpTo(n - 1)
         IN  shorter \cup {Append(s, c) : s \in {t \in shorter : Len(t) = n - 1}, c \in Chars}

\* ------------------------------------------------------------------------
\* str::trim and str::parse::<i64>
\* ------------------------------------------------------------------------
RECURSIVE TrimStart(_)
TrimStart(s) ==
    IF s # <<>> /\ IsWhitespace(Head(s)) THEN TrimStart(Tail(s)) ELSE s

RECURSIVE TrimEnd(_)
TrimEnd(s) ==
    IF s # <<>> /\ IsWhitespace(s[Len(s)]) THEN TrimEnd(SubSeq(s, 1, Len(s) - 1)) ELSE s

\* variant: only the leading whitespace is removed
Trim_StartOnly(s) == TrimStart(s)

Trim(s) == TrimEnd(TrimStart(s))

\* i64::MAX = 9223372036854775807, as its decimal digits
I64MaxDigits == <<9, 2, 2, 3, 3, 7, 2, 0, 3, 6, 8, 5, 4, 7, 7, 5, 8, 0, 7>>

RECURSIVE StripZeros(_)
StripZeros(s) ==
    IF s # <<>> /\ Head(s) = "0" THEN StripZeros(Tail(s)) ELSE s

\* d (digit characters, no leading zero) exceeds i64::MAX
ExceedsI64(d) ==
    \/ Len(d) > Len(I64MaxDigits)
    \/ /\ Len(d) = Len(I64MaxDigits)
       /\ \E i \in 1..Len(d) :
             /\ DigitVal(d[i]) > I64MaxDigits[i]
             /\ \A j \in 1..(i - 1) : DigitVal(d[j]) = I64MaxDigits[j]

RECURSIVE DecValue(_)
DecValue(s) ==
    IF s = <<>> THEN 0
    ELSE 10 * DecValue(SubSeq(s, 1, Len(s) - 1)) + DigitVal(s[Len(s)])

\* number_str.parse::<i64>() on a buffer of ASCII digits: Err(Empty) on the
\* empty buffer, Err(PosOverflow) when the checked accumulation overflows
ParseI64(s) ==
    IF s = <<>> THEN [ok |-> FALSE, error |-> "Empty"]
    ELSE IF ExceedsI64(StripZeros(s)) THEN [ok |-> FALSE, error |-> "PosOverflow"]
    ELSE [ok |-> TRUE, value |-> DecValue(s)]

\* ------------------------------------------------------------------------
\* parser.rs: errors
\* ------------------------------------------------------------------------
\* struct ParseError { position: LinePosition { line, column }, error }
ParseError(line, column, error) ==
    [position |-> [line |-> line, column |-> column], error |-> error]

\* variant: the line is left as the line parser made it
at_line_Unset(self, line) == self

\* ParseError::at_line: sets the line, keeps the column and the error
at_line(self, line) ==
    [self EXCEPT !.position = [line |-> Some(line), column |-> self.position.column]]

Ok(v) == [ok |-> TRUE, value |-> v]
Err(e) == [ok |-> FALSE, error |-> e]

\* ------------------------------------------------------------------------
\* The card-info collaborator: T::parse and get_name are supplied by the
\* implementor of GetCardInfo.  T::parse may fail with a ParseError of the
\* implementor's making, and the card it builds reports the name it was built
\* from or a name of the implementor's own.
\* ------------------------------------------------------------------------
Alias == <<"a">>

CollabErrors ==
    { ParseError(None, None, [kind |-> "Collaborator"]),
      ParseError(Some(9), Some(2), [kind |-> "Collaborator"]) }

ParseOutcomes(nm) ==
    { Ok([name |-> n]) : n \in {nm, Alias} } \cup { Err(e) : e \in CollabErrors }

get_name(card) == card.name

\* ------------------------------------------------------------------------
\* parser.rs: parse_line
\* ------------------------------------------------------------------------
\* variant: either case of the letter separates
IsSeparatorLetter_AnyCase(chr) == chr \in {"x", "X"}

\* the letter that separates the amount from the name
IsSeparatorLetter(chr) == chr = "x"

\* variant: the byte offset itself is reported
ColumnOf_ZeroBased(idx) == idx

\* the column reported for the character at byte offset idx
ColumnOf(idx) == idx + 1

\* the expected-set of the unexpected-character error
Expected(number_str) ==
    IF number_str # <<>>
    THEN <<"a digit", "a number separator", "a card name">>
    ELSE <<"a digit">>

ScanInit ==
    [parserstate |-> "Numbering", number_str |-> <<>>, name |-> <<>>, err |-> None]

\* variant: the separator letter met in Numbering state starts the name
NumberingArm_KeepsSeparator(st, idx, chr) ==
    IF IsDigit(chr) THEN [st EXCEPT !.number_str = Append(@, chr)]
    ELSE IF chr \in {" ", "\t"} THEN [st EXCEPT !.parserstate = "Exing"]
    ELSE IF chr = "x" THEN [st EXCEPT !.name = Append(@, chr), !.parserstate = "Naming"]
    ELSE [st EXCEPT !.err =
             Some(ParseError(None, Some(idx + 1),
                             [kind |-> "UnexpectedChar", obtained |-> chr,
                              expected |-> Expected(st.number_str)]))]

\* the Numbering arm of the match on parserstate
NumberingArm(st, idx, chr) ==
    IF IsDigit(chr) THEN [st EXCEPT !.number_str = Append(@, chr)]
    ELSE IF chr \in {" ", "\t"} THEN [st EXCEPT !.parserstate = "Exing"]
    ELSE IF IsSeparatorLetter(chr) THEN [st EXCEPT !.parserstate = "Naming"]
    ELSE [st EXCEPT !.err =
             Some(ParseError(None, Some(ColumnOf(idx)),
                             [kind |-> "UnexpectedChar", obtained |-> chr,
                              expected |-> Expected(st.number_str)]))]

\* variant: after a blank the separator letter is a character of the name
ExingArm_KeepsLetter(st, chr) ==
    IF chr \in {" ", "\t"} THEN st
    ELSE [st EXCEPT !.name = Append(@, chr), !.parserstate = "Naming"]

\* the Exing arm
ExingArm(st, chr) ==
    IF chr \in {" ", "\t"} THEN st
    ELSE IF IsSeparatorLetter(chr) THEN [st EXCEPT !.parserstate = "Naming"]
    ELSE [st EXCEPT !.name = Append(@, chr), !.parserstate = "Naming"]

\* the Naming arm
NamingArm(st, chr) == [st EXCEPT !.name = Append(@, chr)]

\* one iteration of the loop over string.char_indices()
ScanChar(st, idx, chr) ==
    CASE st.parserstate = "Numbering" -> NumberingArm(st, idx, chr)
      [] st.parserstate = "Exing" -> ExingArm(st, chr)
      [] st.parserstate = "Naming" -> NamingArm(st, chr)

\* variant: the empty name is checked before the zero amount
PostScan_NameFirst(number_str, raw_name, outcome) ==
    LET nm == Trim(raw_name)
        number == ParseI64(number_str)
    IN  IF ~number.ok
        THEN [result |-> Err(ParseError(None, None,
                                 [kind |-> "NotANumber", string |-> number_str,
                                  error |-> number.error])),
              calls |-> <<>>]
        ELSE IF nm = <<>>
        THEN [result |-> Err(ParseError(None, None, [kind |-> "NameIsEmpty"])),
              calls |-> <<>>]
        ELSE IF number.value = 0
        THEN [result |-> Err(ParseError(None, None,
                                 [kind |-> "AmountIsZero", card_name |-> nm])),
              calls |-> <<>>]
        ELSE [result |-> IF outcome.ok
                         THEN Ok([card |-> outcome.value, amount |-> number.value])
                         ELSE Err(outcome.error),
              calls |-> <<nm>>]

\* the code after the loop; outcome is the collaborator's answer to
\* T::parse(&name), used only when the call is reached.  calls lists the
\* arguments T::parse was called with.
PostScan(number_str, raw_name, outcome) ==
    LET nm == Trim(raw_name)
        number == ParseI64(number_str)
    IN  IF ~number.ok
        THEN [result |-> Err(ParseError(None, None,
                                 [kind |-> "NotANumber", string |-> number_str,
                                  error |-> number.error])),
              calls |-> <<>>]
        ELSE IF number.value = 0
        THEN [result |-> Err(ParseError(None, None,
                                 [kind |-> "AmountIsZero", card_name |-> nm])),
              calls |-> <<>>]
        ELSE IF nm = <<>>
        THEN [result |-> Err(ParseError(None, None, [kind |-> "NameIsEmpty"])),
              calls |-> <<>>]
        ELSE [result |-> IF outcome.ok
                         THEN Ok([card |-> outcome.value, amount |-> number.value])
                         ELSE Err(outcome.error),
              calls |-> <<nm>>]

\* the whole loop, for the callers of parse_line: the scan stops at the
\* first unexpected character
RECURSIVE ScanFrom(_, _, _, _)
ScanFrom(st, string, pos, idx) ==
    IF st.err # None \/ pos = Len(string) THEN st
    ELSE ScanFrom(ScanChar(st, idx, string[pos + 1]), string, pos + 1,
                  idx + LenUtf8(string[pos + 1]))

\* every result parse_line(string) can have, with the collaborator calls made
parse_line(string) ==
    UNION { IF st.err # None
            THEN { [result |-> Err(st.err[1]), calls |-> <<>>] }
            ELSE { PostScan(st.number_str, st.name, o) : o \in ParseOutcomes(Trim(st.name)) }
            : st \in {ScanFrom(ScanInit, string, 0, 0)} }

\* ------------------------------------------------------------------------
\* State
\* ------------------------------------------------------------------------
VARIABLES
    string,       \* parse_line: the line being parsed
    pos,          \* parse_line: characters consumed by the loop
    byte_idx,     \* parse_line: byte offset of the next character (idx)
    parserstate,  \* parse_line: Numbering, Exing or Naming
    number_str,   \* parse_line: the numeral buffer
    name,         \* parse_line: the name buffer
    result,       \* parse_line: None while running, then Some(result)
    parse_calls,  \* the arguments T::parse has been called with
    file,         \* parse_file: what the reader yields, read by read
    source_fails, \* parse_file: past these reads the source fails every read
    file_pc,      \* parse_file: "open", "loop" or "done"
    line_idx,     \* parse_file: the line counter
    cards,        \* parse_file: the accepted entries
    used_names,   \* parse_file: the names of the accepted entries
    errors,       \* parse_file: the recorded errors
    file_result,  \* parse_file: None while running, then Some(result)
    reads,        \* parse_file: what each read_line and parse_line call returned
    deck,         \* generate_deck_data: the entry list
    deck_pc,      \* generate_deck_data: "entry", "copies" or "done"
    idx,          \* generate_deck_data: the entry counter
    copy,         \* generate_deck_data: copies of the current entry emitted
    card_ids,     \* generate_deck_data: the aggregate identifier list
    custom_deck,  \* generate_deck_data: the descriptor map
    contained_objects, \* generate_deck_data: the replicated objects
    deck_result,  \* generate_deck_data: None while running, then Some(result)
    save_state,   \* SaveState::new_with_deck: None while running, then Some(result)
    info_calls    \* the get_front_image, get_back_image, get_card_shape calls made

lineVars == <<string, pos, byte_idx, parserstate, number_str, name, result>>

fileVars == <<file, source_fails, file_pc, line_idx, cards, used_names, errors, file_result, reads>>

deckVars == <<deck, deck_pc, idx, copy, card_ids, custom_deck, contained_objects,
              deck_result, save_state, info_calls>>

vars == <<lineVars, parse_calls, fileVars, deckVars>>

\* a numeral one above i64::MAX, followed by a separator and a name
OverflowLine ==
    <<"9", "2", "2", "3", "3", "7", "2", "0", "3", "6", "8", "5", "4", "7", "7", "5",
      "8", "0", "8", "x", "a">>

\* 3x1 Card, 3 Card and 3 xavier
ExampleLines ==
    { <<"3", "x", "1", " ", "C", "a", "r", "d">>,
      <<"3", " ", "C", "a", "r", "d">>,
      <<"3", " ", "x", "a", "v", "i", "e", "r">> }

Lines == StringsUpTo(MaxLen) \cup {OverflowLine} \cup ExampleLines

LineIdle ==
    /\ string = <<>> /\ pos = 0 /\ byte_idx = 0 /\ parserstate = "Numbering"
    /\ number_str = <<>> /\ name = <<>> /\ result = None

FileIdle ==
    /\ file = <<>> /\ source_fails = FALSE
    /\ file_pc = "done" /\ line_idx = 0 /\ cards = <<>>
    /\ used_names = <<>> /\ errors = <<>> /\ file_result = None /\ reads = <<>>

DeckIdle ==
    /\ deck = <<>> /\ deck_pc = "done" /\ idx = 0 /\ copy = 0 /\ card_ids = <<>>
    /\ custom_deck = <<>> /\ contained_objects = <<>> /\ deck_result = None
    /\ save_state = None /\ info_calls = <<>>

\* entry of parse_line(string)
LineInit ==
    /\ string \in Lines
    /\ pos = 0
    /\ byte_idx = 0
    /\ parserstate = "Numbering"
    /\ number_str = <<>>
    /\ name = <<>>
    /\ result = None
    /\ parse_calls = <<>>
    /\ FileIdle
    /\ DeckIdle

\* one loop iteration in the given parser state
Scan(state) ==
    /\ result = None
    /\ pos < Len(string)
    /\ parserstate = state
    /\ LET chr == string[pos + 1]
           st == ScanChar([parserstate |-> parserstate, number_str |-> number_str,
                           name |-> name, err |-> None], byte_idx, chr)
       IN  /\ parserstate' = st.parserstate
           /\ number_str' = st.number_str
           /\ name' = st.name
           /\ result' = IF st.err # None THEN Some(Err(st.err[1])) ELSE None
           /\ pos' = pos + 1
           /\ byte_idx' = byte_idx + LenUtf8(chr)
    /\ UNCHANGED <<string, parse_calls, fileVars, deckVars>>

ScanNumbering == Scan("Numbering")

ScanExing == Scan("Exing")

ScanNaming == Scan("Naming")

\* the loop is over: the checks after it and the collaborator call
EndOfScan ==
    /\ result = None
    /\ pos = Len(string)
    /\ \E outcome \in ParseOutcomes(Trim(name)) :
          LET r == PostScan(number_str, name, outcome)
          IN  /\ result' = Some(r.result)
              /\ parse_calls' = parse_calls \o r.calls
    /\ UNCHANGED <<string, pos, byte_idx, parserstate, number_str, name, fileVars, deckVars>>

LineNext == ScanNumbering \/ ScanExing \/ ScanNaming \/ EndOfScan

SpecLine == LineInit /\ [][LineNext]_vars

\* ------------------------------------------------------------------------
\* parser.rs: parse_file
\* ------------------------------------------------------------------------
\* what one read_line call yields: Some(text), the line with its terminator,
\* or None when the read fails
ReadFault == None

\* the lines files are made of; all but the last are terminated
TerminatedLines ==
    { <<"3", "x", "a", "\n">>,
      <<"1", " ", "b", "\n">>,
      <<"0", "x", "a", "\n">>,
      <<"3", "a", "\r", "\n">>,
      <<" ", "\n">>,
      <<"3", "\n">> }

LastLines == { <<"2", "x", "b">>, <<"x">>, <<"3">> }

Files ==
    { f \in UNION { [1..n -> {Some(t) : t \in TerminatedLines \cup LastLines} \cup {ReadFault}]
                    : n \in 0..MaxLines } :
        \A i \in 1..Len(f) : (f[i] # ReadFault /\ f[i][1] \in LastLines) => i = Len(f) }

\* variant: only the most recent name is compared
NameIsUsed_LastOnly(names, nm) == names # <<>> /\ names[Len(names)] = nm

\* used_names.contains(&name)
NameIsUsed(names, nm) == \E i \in 1..Len(names) : names[i] = nm

\* variant: the entries are returned whenever there are any
FinalResult_Partial(entries, errs) == IF entries # <<>> THEN Ok(entries) ELSE Err(errs)

\* the value parse_file returns after the loop
FinalResult(entries, errs) == IF errs = <<>> THEN Ok(entries) ELSE Err(errs)

FileInit ==
    /\ file \in Files
    /\ source_fails \in BOOLEAN
    /\ file_pc = "open"
    /\ line_idx = 0
    /\ cards = <<>>
    /\ used_names = <<>>
    /\ errors = <<>>
    /\ file_result = None
    /\ reads = <<>>
    /\ parse_calls = <<>>
    /\ LineIdle
    /\ DeckIdle

\* File::open succeeds
OpenFile ==
    /\ file_pc = "open"
    /\ file_pc' = "loop"
    /\ UNCHANGED <<file, source_fails, line_idx, cards, used_names, errors, file_result, reads,
                   parse_calls, lineVars, deckVars>>

\* File::open fails: a single cannot-open error, no line is read
OpenFails ==
    /\ file_pc = "open"
    /\ file_pc' = "done"
    /\ file_result' = Some(Err(<<ParseError(None, None, [kind |-> "CantOpenFile"])>>))
    /\ UNCHANGED <<file, source_fails, line_idx, cards, used_names, errors, reads, parse_calls, lineVars, deckVars>>

\* read_line returns Ok(0): the loop breaks and parse_file returns
ReadEnd ==
    /\ file_pc = "loop"
    /\ line_idx = Len(file)
    /\ ~source_fails
    /\ line_idx' = line_idx + 1
    /\ file_pc' = "done"
    /\ file_result' = Some(FinalResult(cards, errors))
    /\ UNCHANGED <<file, source_fails, cards, used_names, errors, reads, parse_calls, lineVars, deckVars>>

\* read_line returns a line that is empty once trimmed: continue
ReadBlank ==
    /\ file_pc = "loop"
    /\ line_idx < Len(file)
    /\ file[line_idx + 1] # ReadFault
    /\ Trim(file[line_idx + 1][1]) = <<>>
    /\ line_idx' = line_idx + 1
    /\ reads' = Append(reads, [line |-> file[line_idx + 1], parsed |-> None])
    /\ UNCHANGED <<file, source_fails, file_pc, cards, used_names, errors, file_result, parse_calls,
                   lineVars, deckVars>>

\* read_line returns a non-blank line: parse_line, then the name check
ReadLine ==
    /\ file_pc = "loop"
    /\ line_idx < Len(file)
    /\ file[line_idx + 1] # ReadFault
    /\ Trim(file[line_idx + 1][1]) # <<>>
    /\ line_idx' = line_idx + 1
    /\ \E r \in parse_line(file[line_idx + 1][1]) :
          /\ parse_calls' = parse_calls \o r.calls
          /\ reads' = Append(reads, [line |-> file[line_idx + 1], parsed |-> Some(r.result)])
          /\ IF r.result.ok
             THEN LET entry == r.result.value
                      nm == get_name(entry.card)
                  IN  IF NameIsUsed(used_names, nm)
                      THEN /\ errors' = Append(errors,
                                           ParseError(Some(line_idx'), None,
                                                      [kind |-> "NameMultipleTimes",
                                                       name |-> nm]))
                           /\ UNCHANGED <<used_names, cards>>
                      ELSE /\ used_names' = Append(used_names, nm)
                           /\ cards' = Append(cards, entry)
                           /\ UNCHANGED errors
             ELSE /\ errors' = Append(errors, at_line(r.result.error, line_idx'))
                  /\ UNCHANGED <<used_names, cards>>
    /\ UNCHANGED <<file, source_fails, file_pc, file_result, lineVars, deckVars>>

\* read_line fails: a could-not-read-line error, the loop goes on
ReadFails ==
    /\ file_pc = "loop"
    /\ line_idx < Len(file)
    /\ file[line_idx + 1] = ReadFault
    /\ line_idx' = line_idx + 1
    /\ errors' = Append(errors, ParseError(Some(line_idx'), None,
                                           [kind |-> "CouldntReadLine", line |-> line_idx']))
    /\ reads' = Append(reads, [line |-> ReadFault, parsed |-> None])
    /\ UNCHANGED <<file, source_fails, file_pc, cards, used_names, file_result, parse_calls, lineVars, deckVars>>

\* read_line fails without consuming anything, as it does at every call when
\* the source itself is at fault (the path opened is a directory, the
\* device errs). The line counter grows without bound in the code; here it
\* is counted up to MaxFailedReads reads past the content and held there,
\* while the loop goes on.
ReadKeepsFailing ==
    /\ file_pc = "loop"
    /\ line_idx >= Len(file)
    /\ source_fails
    /\ line_idx' = IF line_idx < Len(file) + MaxFailedReads THEN line_idx + 1 ELSE line_idx
    /\ file_pc' = "read_err"
    /\ UNCHANGED <<file, source_fails, cards, used_names, errors, reads, file_result, parse_calls,
                   lineVars, deckVars>>

\* the Err arm of the match after such a read: a could-not-read-line error,
\* then the next iteration; the error list is extended as far as the line
\* counter is counted
RecordReadError ==
    /\ file_pc = "read_err"
    /\ file_pc' = "loop"
    /\ IF Len(reads) < line_idx
       THEN /\ errors' = Append(errors, ParseError(Some(line_idx), None,
                                                   [kind |-> "CouldntReadLine", line |-> line_idx]))
            /\ reads' = Append(reads, [line |-> ReadFault, parsed |-> None])
       ELSE UNCHANGED <<errors, reads>>
    /\ UNCHANGED <<file, source_fails, line_idx, cards, used_names, file_result, parse_calls,
                   lineVars, deckVars>>

FileNext ==
    \/ OpenFile \/ OpenFails \/ ReadEnd \/ ReadBlank \/ ReadLine \/ ReadFails
    \/ ReadKeepsFailing \/ RecordReadError

SpecFile == FileInit /\ [][FileNext]_vars

\* ------------------------------------------------------------------------
\* lib.rs: CardEntry::get_custom_deck_state and the collaborator it calls
\* ------------------------------------------------------------------------
CardNames == {"A", "B"}

\* the answers of get_front_image, get_back_image and get_card_shape; each
\* call may fail, and get_front_image need not answer the same twice
FrontAnswers(card) ==
    { Ok("face1"), Ok("face2"),
      Err([kind |-> "FrontImageNotFound", card_name |-> card.name]) }

BackAnswers(card) ==
    { Ok("back"), Err([kind |-> "BackImageFileError", card_name |-> card.name]) }

ShapeAnswers(card) ==
    { Ok(IF card.name = "A" THEN "Hexagon" ELSE "Circle"),
      Err([kind |-> "Custom", message |-> "shape"]) }

\* impl From<CardShape> for i64
ShapeCode(shape) ==
    CASE shape = "RoundedRectangle" -> 0
      [] shape = "Rectangle" -> 1
      [] shape = "RoundedHexagon" -> 2
      [] shape = "Hexagon" -> 3
      [] shape = "Circle" -> 4

Call(op, card, answer) == [op |-> op, card |-> card.name, answer |-> answer]

\* variant: the three answers are fetched before any is examined
DeckStateFrom_Eager(self, front, back, shape) ==
    [calls |-> <<Call("get_front_image", self.card, front),
                 Call("get_back_image", self.card, back),
                 Call("get_card_shape", self.card, shape)>>,
     result |-> IF ~front.ok THEN Err(front.error)
                ELSE IF ~back.ok THEN Err(back.error)
                ELSE IF ~shape.ok THEN Err(shape.error)
                ELSE Ok([name |-> get_name(self.card),
                         face_url |-> front.value,
                         back_url |-> back.value,
                         num_width |-> Some(1),
                         num_height |-> Some(1),
                         back_is_hidden |-> TRUE,
                         unique_back |-> FALSE,
                         type |-> ShapeCode(shape.value)])]

\* one call of get_custom_deck_state given the collaborator's answers: the
\* fields are evaluated in order and the first failure returns
DeckStateFrom(self, front, back, shape) ==
    IF ~front.ok
    THEN [calls |-> <<Call("get_front_image", self.card, front)>>,
          result |-> Err(front.error)]
    ELSE IF ~back.ok
    THEN [calls |-> <<Call("get_front_image", self.card, front),
                      Call("get_back_image", self.card, back)>>,
          result |-> Err(back.error)]
    ELSE [calls |-> <<Call("get_front_image", self.card, front),
                      Call("get_back_image", self.card, back),
                      Call("get_card_shape", self.card, shape)>>,
          result |-> IF ~shape.ok THEN Err(shape.error)
                     ELSE Ok([name |-> get_name(self.card),
                              face_url |-> front.value,
                              back_url |-> back.value,
                              num_width |-> Some(1),
                              num_height |-> Some(1),
                              back_is_hidden |-> TRUE,
                              unique_back |-> FALSE,
                              type |-> ShapeCode(shape.value)])]

\* every outcome get_custom_deck_state can have, with the calls it made
get_custom_deck_state(self) ==
    { DeckStateFrom(self, front, back, shape) :
        front \in FrontAnswers(self.card),
        back \in BackAnswers(self.card),
        shape \in ShapeAnswers(self.card) }

\* ------------------------------------------------------------------------
\* tts.rs: generate_deck_data and SaveState::new_with_deck
\* ------------------------------------------------------------------------
\* variant: the identifiers start at zero
DeckId_ZeroBased(i) == (i - 1) * 100

\* let id = idx * 100
DeckId(i) == i * 100

\* variant: the descriptors are stored under the identifier
DeckKey_Identifier(i) == i * 100

\* the key custom_deck.insert and hm.insert are given
DeckKey(i) == i

\* HashMap::insert
Insert(map, key, value) ==
    [k \in DOMAIN map \cup {key} |-> IF k = key THEN value ELSE map[k]]

\* generate_guid: a random token, taken to be new at every call; the n-th
\* call returns token n
generate_guid(n) == n

\* variant: the embedded descriptor is stored under the card identifier
CardObject_KeyedById(guid, id, key, state) ==
    [guid |-> guid, name |-> "CardCustom", hands |-> TRUE, card_id |-> Some(id),
     deck_ids |-> None, custom_deck |-> Insert(<<>>, id, state),
     contained_objects |-> None]

\* the ObjectState pushed for one copy
CardObject(guid, id, key, state) ==
    [guid |-> guid, name |-> "CardCustom", hands |-> TRUE, card_id |-> Some(id),
     deck_ids |-> None, custom_deck |-> Insert(<<>>, key, state),
     contained_objects |-> None]

\* the SaveState new_with_deck builds around the deck data
DeckDocument(guid, ids, states, objects) ==
    [object_states |->
        <<[guid |-> guid, name |-> "Deck", hands |-> FALSE, card_id |-> None,
           deck_ids |-> Some(ids), custom_deck |-> states,
           contained_objects |-> Some(objects)]>>]

Decks ==
    UNION { [1..n -> [card : [name : CardNames], amount : 1..MaxAmount]] : n \in 0..MaxEntries }

DeckInit ==
    /\ deck \in Decks
    /\ deck_pc = "entry"
    /\ idx = 0
    /\ copy = 0
    /\ card_ids = <<>>
    /\ custom_deck = <<>>
    /\ contained_objects = <<>>
    /\ deck_result = None
    /\ save_state = None
    /\ info_calls = <<>>
    /\ parse_calls = <<>>
    /\ LineIdle
    /\ FileIdle

\* generate_deck_data returns Err(e), and new_with_deck with it
Abort(e) ==
    /\ deck_pc' = "done"
    /\ deck_result' = Some(Err(e))
    /\ save_state' = Some(Err(e))

\* the head of the loop over the deck: the next entry gets its identifier
\* and its descriptor is inserted in the map
NextEntry ==
    /\ deck_pc = "entry"
    /\ idx < Len(deck)
    /\ idx' = idx + 1
    /\ copy' = 0
    /\ \E o \in get_custom_deck_state(deck[idx + 1]) :
          /\ info_calls' = info_calls \o o.calls
          /\ IF o.result.ok
             THEN /\ custom_deck' = Insert(custom_deck, DeckKey(idx'), o.result.value)
                  /\ deck_pc' = "copies"
                  /\ UNCHANGED <<deck_result, save_state>>
             ELSE /\ Abort(o.result.error)
                  /\ UNCHANGED custom_deck
    /\ UNCHANGED <<deck, card_ids, contained_objects, parse_calls, lineVars, fileVars>>

\* one iteration of the loop over 0..card.amount
NextCopy ==
    /\ deck_pc = "copies"
    /\ copy < deck[idx].amount
    /\ copy' = copy + 1
    /\ card_ids' = Append(card_ids, DeckId(idx))
    /\ \E o \in get_custom_deck_state(deck[idx]) :
          /\ info_calls' = info_calls \o o.calls
          /\ IF o.result.ok
             THEN /\ contained_objects' =
                        Append(contained_objects,
                               CardObject(generate_guid(Len(card_ids')), DeckId(idx),
                                          DeckKey(idx), o.result.value))
                  /\ UNCHANGED <<deck_pc, deck_result, save_state>>
             ELSE /\ Abort(o.result.error)
                  /\ UNCHANGED contained_objects
    /\ UNCHANGED <<deck, idx, custom_deck, parse_calls, lineVars, fileVars>>

\* the loop over 0..card.amount is over
CopiesDone ==
    /\ deck_pc = "copies"
    /\ copy >= deck[idx].amount
    /\ deck_pc' = "entry"
    /\ UNCHANGED <<deck, idx, copy, card_ids, custom_deck, contained_objects, deck_result,
                   save_state, info_calls, parse_calls, lineVars, fileVars>>

\* the loop over the deck is over: generate_deck_data returns the three
\* collections and new_with_deck wraps them
DeckDone ==
    /\ deck_pc = "entry"
    /\ idx = Len(deck)
    /\ deck_pc' = "done"
    /\ deck_result' = Some(Ok(<<card_ids, custom_deck, contained_objects>>))
    /\ save_state' = Some(Ok(DeckDocument(generate_guid(Len(card_ids) + 1), card_ids,
                                          custom_deck, contained_objects)))
    /\ UNCHANGED <<deck, idx, copy, card_ids, custom_deck, contained_objects, info_calls,
                   parse_calls, lineVars, fileVars>>

DeckNext == NextEntry \/ NextCopy \/ CopiesDone \/ DeckDone

SpecDeck == DeckInit /\ [][DeckNext]_vars

\* ------------------------------------------------------------------------
\* Properties of parse_line (specification SpecLine)
\* ------------------------------------------------------------------------
\* the longest prefix of s made of ASCII digits
RECURSIVE DigitRun(_)
DigitRun(s) ==
    IF s # <<>> /\ IsDigit(Head(s)) THEN <<Head(s)>> \o DigitRun(Tail(s)) ELSE <<>>

\* s without its first k characters
Drop(s, k) == SubSeq(s, k + 1, Len(s))

\* the longest prefix of s made of spaces and tabs
RECURSIVE BlankRun(_)
BlankRun(s) ==
    IF s # <<>> /\ Head(s) \in {" ", "\t"} THEN <<Head(s)>> \o BlankRun(Tail(s)) ELSE <<>>

Returned == result # None

\* the character that follows the digit run of the line, if any
AfterDigits == Drop(string, Len(DigitRun(string)))

\* the line has the form <n>x<name>, n >= 1 fitting i64, name non-empty
\* once trimmed
ValidLine ==
    /\ DigitRun(string) # <<>>
    /\ AfterDigits # <<>>
    /\ Head(AfterDigits) = "x"
    /\ ~ExceedsI64(StripZeros(DigitRun(string)))
    /\ DecValue(DigitRun(string)) >= 1
    /\ Trim(Tail(AfterDigits)) # <<>>

\* C1: a line <n>x<name> with n >= 1 and a name that is non-empty once
\* trimmed makes exactly one collaborator call, on the trimmed text after the
\* separator, and when that call succeeds the entry has amount n and the
\* card the collaborator built; when it fails the error is the collaborator's.
C1_ValidLineParses ==
    (Returned /\ ValidLine) =>
        /\ parse_calls = <<Trim(Tail(AfterDigits))>>
        /\ result[1].ok =>
              /\ result[1].value.amount = DecValue(DigitRun(string))
              /\ Ok(result[1].value.card) \in ParseOutcomes(Trim(Tail(AfterDigits)))
        /\ ~result[1].ok => result[1].error \in CollabErrors

\* a valid line whose name lost surrounding whitespace has been parsed
C1_Witness ==
    /\ Returned /\ ValidLine
    /\ result[1].ok
    /\ result[1].value.amount = 3
    /\ Len(Trim(Tail(AfterDigits))) < Len(Tail(AfterDigits))

\* the line with its first upper-case X after the digit run and the blanks
\* replaced by a lower-case x
HasUpperSeparator ==
    LET after == Drop(AfterDigits, Len(BlankRun(AfterDigits)))
    IN  after # <<>> /\ Head(after) = "X"

LowerSeparator ==
    LET k == Len(DigitRun(string)) + Len(BlankRun(AfterDigits)) + 1
    IN  [string EXCEPT ![k] = "x"]

UnexpectedAt(k) ==
    /\ ~result[1].ok
    /\ result[1].error.error.kind = "UnexpectedChar"
    /\ result[1].error.error.obtained = string[k]
    /\ result[1].error.position = [line |-> None, column |-> Some(k)]
    /\ parse_calls = <<>>

\* C3 as stated: when the character after the digit run is neither a digit
\* nor whitespace, the line fails with an unexpected character at that
\* character's column.
C3_NonDigitRejected ==
    (Returned /\ AfterDigits # <<>> /\ ~IsWhitespace(Head(AfterDigits))) =>
        UnexpectedAt(Len(DigitRun(string)) + 1)

\* C3 amended: when the character after the digit run is neither a digit,
\* nor whitespace, nor the separator letter x, the line fails with an
\* unexpected-character error whose column is that character's 1-based
\* position, with no line number and no collaborator call.
C3_NonSeparatorRejected ==
    (Returned /\ AfterDigits # <<>> /\ ~IsWhitespace(Head(AfterDigits))
              /\ Head(AfterDigits) # "x") =>
        UnexpectedAt(Len(DigitRun(string)) + 1)

\* a two-byte character after two digits was rejected at column 3
C3_Witness ==
    /\ Returned
    /\ Len(DigitRun(string)) = 2
    /\ AfterDigits # <<>> /\ Head(AfterDigits) = WideChar
    /\ UnexpectedAt(3)

\* the scan ended without an unexpected-character error
ScanCompleted ==
    /\ Returned
    /\ result[1].ok \/ result[1].error.error.kind # "UnexpectedChar"

VoidPosition == [line |-> None, column |-> None]

\* C4: after a scan without unexpected character the checks are made in the
\* order not-a-number, amount-is-zero (carrying the trimmed name), name-is-
\* empty, and only then is the collaborator called; the three errors carry
\* neither line nor column.
C4_PostScanOrder ==
    ScanCompleted =>
        IF number_str = <<>> \/ ExceedsI64(StripZeros(number_str))
        THEN /\ ~result[1].ok
             /\ result[1].error.error.kind = "NotANumber"
             /\ result[1].error.position = VoidPosition
             /\ parse_calls = <<>>
        ELSE IF DecValue(number_str) = 0
        THEN /\ ~result[1].ok
             /\ result[1].error.error = [kind |-> "AmountIsZero", card_name |-> Trim(name)]
             /\ result[1].error.position = VoidPosition
             /\ parse_calls = <<>>
        ELSE IF Trim(name) = <<>>
        THEN /\ ~result[1].ok
             /\ result[1].error.error = [kind |-> "NameIsEmpty"]
             /\ result[1].error.position = VoidPosition
             /\ parse_calls = <<>>
        ELSE parse_calls = <<Trim(name)>>

\* a zero amount with an empty name was reported as amount-is-zero
C4_Witness ==
    /\ ScanCompleted
    /\ number_str = <<"0">>
    /\ Trim(name) = <<>>
    /\ name # <<>>
    /\ ~result[1].ok
    /\ result[1].error.error.kind = "AmountIsZero"

\* ------------------------------------------------------------------------
\* Properties of parse_file (specification SpecFile)
\* ------------------------------------------------------------------------
\* what the i-th read saw: an unreadable line, a line that failed line
\* parsing, a line that parsed
Unreadable(i) == reads[i].line = ReadFault

FailsParsing(i) == reads[i].parsed # None /\ ~reads[i].parsed[1].ok

ParsedOk(i) == reads[i].parsed # None /\ reads[i].parsed[1].ok

EntryAt(i) == reads[i].parsed[1].value

\* line i parsed and an earlier line parsed to a card of the same name
Repeats(i) ==
    /\ ParsedOk(i)
    /\ \E j \in 1..(i - 1) : ParsedOk(j) /\ EntryAt(j).card.name = EntryAt(i).card.name

\* the error owed to line n, if any
ErrorOwed(n) ==
    IF Unreadable(n)
    THEN <<ParseError(Some(n), None, [kind |-> "CouldntReadLine", line |-> n])>>
    ELSE IF FailsParsing(n)
    THEN <<[position |-> [line |-> Some(n),
                          column |-> reads[n].parsed[1].error.position.column],
            error |-> reads[n].parsed[1].error.error]>>
    ELSE IF Repeats(n)
    THEN <<ParseError(Some(n), None,
                      [kind |-> "NameMultipleTimes", name |-> EntryAt(n).card.name])>>
    ELSE <<>>

RECURSIVE ErrorsOwed(_)
ErrorsOwed(n) == IF n = 0 THEN <<>> ELSE ErrorsOwed(n - 1) \o ErrorOwed(n)

\* the entries of the lines that parsed and repeat no earlier name, in line order
RECURSIVE FirstOccurrences(_)
FirstOccurrences(n) ==
    IF n = 0 THEN <<>>
    ELSE FirstOccurrences(n - 1) \o
         (IF ParsedOk(n) /\ ~Repeats(n) THEN <<EntryAt(n)>> ELSE <<>>)

\* parse_file has returned after reading the whole file
FileReturned == file_pc = "done" /\ file_result # None /\ line_idx > 0

\* C5: parse_file returns the failure variant exactly when some line recorded
\* an error, and then no entry; otherwise it returns every accepted entry in
\* line order; a returned error list is never empty.
C5_AllOrNothing ==
    /\ FileReturned =>
          /\ Len(reads) = Len(file)
          /\ ~file_result[1].ok <=>
                \E i \in 1..Len(reads) : Unreadable(i) \/ FailsParsing(i) \/ Repeats(i)
          /\ file_result[1].ok =>
                file_result[1].value = FirstOccurrences(Len(reads))
    /\ (file_result # None /\ ~file_result[1].ok) => file_result[1].error # <<>>

\* a file with an accepted entry and an error has returned the errors only
C5_Witness ==
    /\ FileReturned
    /\ cards # <<>>
    /\ ~file_result[1].ok
    /\ Len(file_result[1].error) = 1

\* C6: the returned error list has exactly one error per line that is
\* unreadable, fails line parsing or repeats a name, in line order, with the
\* line's 1-based physical number (blank lines counted) and the line parser's
\* column and error kind; lines without such an error contribute nothing.
C6_ErrorsExhaustive ==
    FileReturned =>
        /\ Len(reads) = Len(file)
        /\ \A i \in 1..Len(reads) : reads[i].line = file[i]
        /\ IF ErrorsOwed(Len(reads)) = <<>>
           THEN file_result[1].ok
           ELSE file_result[1] = Err(ErrorsOwed(Len(reads)))

\* errors on lines 1 and 3 around a valid line 2: two errors, lines 1 and 3
C6_Witness ==
    /\ FileReturned
    /\ Len(reads) = 3
    /\ FailsParsing(1) /\ ParsedOk(2) /\ FailsParsing(3)
    /\ reads[3].parsed[1].error.position.line = Some(9)
    /\ ~file_result[1].ok
    /\ Len(file_result[1].error) = 2
    /\ file_result[1].error[1].position = [line |-> Some(1), column |-> Some(2)]
    /\ file_result[1].error[2].position = [line |-> Some(3), column |-> Some(2)]

\* C7: after any prefix of lines the accepted entries have pairwise distinct
\* names and are the first occurrences in line order; each line that parsed
\* to an already accepted name added no entry and recorded exactly one
\* duplicate-name error with that name, its line number and no column.
C7_NamesDistinct ==
    /\ \A i, j \in 1..Len(cards) :
          i # j => cards[i].card.name # cards[j].card.name
    /\ cards = FirstOccurrences(Len(reads))
    /\ used_names = [i \in 1..Len(cards) |-> cards[i].card.name]
    /\ \A i \in 1..Len(reads) :
          Repeats(i) =>
             \E k \in 1..Len(errors) :
                /\ errors[k] = ParseError(Some(i), None,
                                          [kind |-> "NameMultipleTimes",
                                           name |-> EntryAt(i).card.name])
                /\ \A m \in 1..Len(errors) :
                      errors[m].position.line = Some(i) => m = k

\* the third line repeats the name of the first, past a different second one
C7_Witness ==
    /\ Len(reads) = 3
    /\ ParsedOk(1) /\ ParsedOk(2) /\ Repeats(3) /\ ~Repeats(2)
    /\ Len(cards) = 2
    /\ Len(errors) = 1
    /\ errors[1].error.kind = "NameMultipleTimes"

\* ------------------------------------------------------------------------
\* Properties of generate_deck_data and new_with_deck (specification SpecDeck)
\* ------------------------------------------------------------------------
Copies(v, n) == [i \in 1..n |-> v]

\* amount_k copies of k * 100 for the first n entries, in entry order
RECURSIVE IdsOf(_)
IdsOf(n) == IF n = 0 THEN <<>> ELSE IdsOf(n - 1) \o Copies(n * 100, deck[n].amount)

RECURSIVE SumAmounts(_)
SumAmounts(n) == IF n = 0 THEN 0 ELSE SumAmounts(n - 1) + deck[n].amount

DeckSucceeded == deck_result # None /\ deck_result[1].ok

DeckFailed == deck_result # None /\ ~deck_result[1].ok

\* C8: when every collaborator call succeeds, the k-th entry has identifier
\* k * 100, and the aggregate identifier list and the card identifiers of
\* the replicated objects are both amount_k copies of k * 100 in entry
\* order, of length the sum of the amounts; the document holds the same.
C8_IdentifiersInOrder ==
    DeckSucceeded =>
        LET ids == deck_result[1].value[1]
            objects == deck_result[1].value[3]
            container == save_state[1].value.object_states[1]
        IN  /\ ids = IdsOf(Len(deck))
            /\ [i \in 1..Len(objects) |-> objects[i].card_id]
                  = [i \in 1..Len(ids) |-> Some(ids[i])]
            /\ Len(ids) = SumAmounts(Len(deck))
            /\ Len(objects) = SumAmounts(Len(deck))
            /\ container.deck_ids = Some(ids)
            /\ container.contained_objects = Some(objects)

\* [(A,2),(B,1)] gave [100,100,200] and three objects
C8_Witness ==
    /\ DeckSucceeded
    /\ deck = <<[card |-> [name |-> "A"], amount |-> 2], [card |-> [name |-> "B"], amount |-> 1]>>
    /\ deck_result[1].value[1] = <<100, 100, 200>>
    /\ Len(deck_result[1].value[3]) = 3

IsPrefix(a, b) == Len(a) <= Len(b) /\ SubSeq(b, 1, Len(a)) = a

DescriptorCalls(k) ==
    <<[op |-> "get_front_image", card |-> deck[k].card.name],
      [op |-> "get_back_image", card |-> deck[k].card.name],
      [op |-> "get_card_shape", card |-> deck[k].card.name]>>

RECURSIVE Repeat(_, _)
Repeat(seq, n) == IF n = 0 THEN <<>> ELSE seq \o Repeat(seq, n - 1)

\* the collaborator calls of a transformation in which none fails: for each
\* entry one descriptor, then one per copy
RECURSIVE Walk(_)
Walk(n) ==
    IF n = 0 THEN <<>>
    ELSE Walk(n - 1) \o Repeat(DescriptorCalls(n), 1 + deck[n].amount)

CallsMade == [i \in 1..Len(info_calls) |-> [op |-> info_calls[i].op, card |-> info_calls[i].card]]

\* C10: the collaborator calls are made in walk order; the first one that
\* fails is the last one made, generate_deck_data returns its error and
\* nothing else, and new_with_deck returns the same error and no document.
\* Without a failure the whole walk is made.
C10_FailFast ==
    LET n == Len(info_calls)
    IN  /\ IsPrefix(CallsMade, Walk(Len(deck)))
        /\ \A i \in 1..(n - 1) : info_calls[i].answer.ok
        /\ (n > 0 /\ ~info_calls[n].answer.ok) =>
              /\ deck_pc = "done"
              /\ deck_result = Some(Err(info_calls[n].answer.error))
              /\ save_state = Some(Err(info_calls[n].answer.error))
        /\ DeckFailed => (n > 0 /\ ~info_calls[n].answer.ok)
        /\ DeckSucceeded => (CallsMade = Walk(Len(deck)) /\ save_state[1].ok)
        /\ (deck_result = None) <=> (save_state = None)

\* the descriptor of a second copy failed with work already done
C10_Witness ==
    /\ DeckFailed
    /\ Len(deck) = 2
    /\ idx = 1 /\ copy = 2
    /\ contained_objects # <<>>
    /\ info_calls[Len(info_calls)].op = "get_back_image"
    /\ save_state = Some(Err([kind |-> "BackImageFileError", card_name |-> deck[1].card.name]))

\* the collaborator gave one answer per operation and card name
AnswersAgree ==
    \A i, j \in 1..Len(info_calls) :
        (info_calls[i].op = info_calls[j].op /\ info_calls[i].card = info_calls[j].card)
            => info_calls[i].answer = info_calls[j].answer

\* the entry the i-th replicated object is a copy of
EntryOf(i) == CHOOSE k \in 1..Len(deck) : SumAmounts(k - 1) < i /\ i <= SumAmounts(k)

\* C11: when the transformation succeeds and the collaborator answered the
\* same for the same card, the descriptor map embedded in each replicated
\* object has one key, the key under which the container's map holds the
\* descriptor of the object's card, and the two descriptors are equal.
C11_EmbeddedMatchesContainer ==
    (DeckSucceeded /\ AnswersAgree) =>
        LET states == deck_result[1].value[2]
            objects == deck_result[1].value[3]
        IN  \A i \in 1..Len(objects) :
               LET k == EntryOf(i)
               IN  /\ DOMAIN objects[i].custom_deck = {k}
                   /\ k \in DOMAIN states
                   /\ states[k].name = deck[k].card.name
                   /\ objects[i].custom_deck[k] = states[k]

\* two entries of two copies each, the second answered with the other face
C11_Witness ==
    /\ DeckSucceeded /\ AnswersAgree
    /\ Len(deck) = 2
    /\ Len(deck_result[1].value[3]) = 4
    /\ DOMAIN deck_result[1].value[3][4].custom_deck = {2}
    /\ deck_result[1].value[2][1].face_url # deck_result[1].value[2][2].face_url

\* ------------------------------------------------------------------------
\* More properties of parse_line (specification SpecLine)
\* ------------------------------------------------------------------------
\* what follows the digit run and the spaces and tabs after it
AfterBlanks == Drop(AfterDigits, Len(BlankRun(AfterDigits)))

\* C12: at most one separator letter is consumed.  The numeral buffer is the
\* digit run; an x right after it, or the first x after the spaces and tabs
\* that follow it, is dropped and everything after it is the name, verbatim;
\* any other character after the spaces and tabs starts the name itself.
\* The collaborator is given that name trimmed.
C12_OneSeparatorConsumed ==
    ScanCompleted =>
        /\ number_str = DigitRun(string)
        /\ name = IF AfterDigits = <<>> THEN <<>>
                  ELSE IF BlankRun(AfterDigits) = <<>> THEN Tail(AfterDigits)
                  ELSE IF AfterBlanks # <<>> /\ Head(AfterBlanks) = "x" THEN Tail(AfterBlanks)
                  ELSE AfterBlanks
        /\ (AfterDigits # <<>> /\ BlankRun(AfterDigits) = <<>>) => Head(AfterDigits) = "x"
        /\ parse_calls \in {<<>>, <<Trim(name)>>}
        /\ result[1].ok =>
              /\ parse_calls = <<Trim(name)>>
              /\ result[1].value.amount = DecValue(DigitRun(string))

\* 3 xavier was parsed to three copies of avier
C12_Witness ==
    /\ ScanCompleted
    /\ string = <<"3", " ", "x", "a", "v", "i", "e", "r">>
    /\ result[1].ok
    /\ result[1].value.amount = 3
    /\ parse_calls = << <<"a", "v", "i", "e", "r">> >>

\* ------------------------------------------------------------------------
\* More properties of parse_file (specification SpecFile)
\* ------------------------------------------------------------------------
\* parse_file runs on: the loop is sequential code that takes its next step
\* whenever it has one
SpecFileFair == FileInit /\ [][FileNext]_vars /\ WF_vars(FileNext)

\* C13: parse_file eventually returns, whatever the reads of the source do.
C13_EventuallyReturns == <>(file_pc = "done")

\* the text of a line as read, without its terminator (\n or \r\n)
Body(line) ==
    IF line # <<>> /\ line[Len(line)] = "\n"
    THEN LET t == SubSeq(line, 1, Len(line) - 1)
         IN  IF t # <<>> /\ t[Len(t)] = "\r" THEN SubSeq(t, 1, Len(t) - 1) ELSE t
    ELSE line

\* what the claim compares: the entry, or the kind and column of the error
Outcome(r) ==
    IF r.ok THEN [entry |-> r.value]
    ELSE [kind |-> r.error.error.kind, column |-> r.error.position.column]

\* the outcomes the line parser can have on a text
OutcomesOf(text) == { Outcome(r.result) : r \in parse_line(text) }

\* C14 as stated: the outcome of a line read with its terminator is an
\* outcome of its text without the terminator.
C14_TerminatorIrrelevant ==
    \A i \in 1..Len(reads) :
        reads[i].parsed # None =>
            Outcome(reads[i].parsed[1]) \in OutcomesOf(Body(reads[i].line[1]))

\* C14 amended: the outcome of a line read with its terminator is an outcome
\* of its text without the terminator, unless the text is made only of
\* digits: then the terminated line fails with an unexpected character, the
\* first character of the terminator, at the column after the digits, while
\* the unterminated text fails one of the checks after the scan.
C14_TerminatorOnlyAfterDigits ==
    \A i \in 1..Len(reads) :
        reads[i].parsed # None =>
            LET line == reads[i].line[1]
                body == Body(line)
            IN  IF DigitRun(body) = body /\ line # body
                THEN /\ reads[i].parsed[1] =
                          Err(ParseError(None, Some(Len(body) + 1),
                                         [kind |-> "UnexpectedChar",
                                          obtained |-> line[Len(body) + 1],
                                          expected |-> <<"a digit", "a number separator",
                                                         "a card name">>]))
                     /\ \A o \in OutcomesOf(body) :
                           /\ "kind" \in DOMAIN o
                           /\ o.kind \in {"NotANumber", "AmountIsZero", "NameIsEmpty"}
                           /\ o.column = None
                ELSE Outcome(reads[i].parsed[1]) \in OutcomesOf(body)

\* the same digits were read with a terminator, then as the last line
\* without one, and a terminated name line was accepted before them
C14_Witness ==
    /\ Len(reads) = 3
    /\ reads[1].line = Some(<<"3", "x", "a", "\n">>) /\ ParsedOk(1)
    /\ reads[2].line = Some(<<"3", "\n">>)
    /\ reads[3].line = Some(<<"3">>)
    /\ Outcome(reads[2].parsed[1]) = [kind |-> "UnexpectedChar", column |-> Some(2)]
    /\ Outcome(reads[3].parsed[1]) = [kind |-> "NameIsEmpty", column |-> None]

====
